---- MODULE Spec2Model ----
(***************************************************************************)
(* A model of demonstrations/tutorial_learning_few_data.py: the QCNN       *)
(* ansatz (convolutional_layer, pooling_layer, conv_and_pooling,           *)
(* dense_layer, conv_net), the evaluation functions (compute_out,          *)
(* compute_accuracy) and the training loop (train_qcnn).                   *)
(*                                                                         *)
(* A circuit program is the sequence of gate operations queued so far.     *)
(* A gate operation is a record                                            *)
(*    [gate, wires, params, ctrl, size]                                    *)
(* gate   : the operation's name,                                          *)
(* wires  : the wires it acts on, in order,                                *)
(* params : the identities of the kernel weights handed to it,             *)
(* ctrl   : the measured wires whose outcome conditions it (qml.cond),     *)
(* size   : the number of parameters handed to it.                         *)
(* Weights are symbolic: entry (i, j) of the weight tensor is the number   *)
(* i + KernelRows * j, so that a gate records which weights it was given.  *)
(***************************************************************************)
EXTENDS Integers, Sequences, FiniteSets, TLC

VARIABLES
    \* conv_net
    layers,      \* weights.shape[1]
    lastSize,    \* last_layer_weights.size
    wires,       \* the active wire list
    j,           \* the round index of the loop `for j in range(layers)`
    prog,        \* the circuit program: gate operations emitted so far
    rounds,      \* history: for each round run, its column, wire list and gates
    pc,          \* position in conv_net
    err,         \* the message of the assertion that failed, "none" otherwise
    \* a direct call of convolutional_layer / pooling_layer
    lwires,      \* the wire list handed to the layer
    lskip,       \* skip_first_layer
    lcall,       \* which function was called ("none" before the call)
    lout,        \* the call's outcome: [ok, ops]
    lpasses,     \* history: the gates emitted by each sweep pass p = 0, 1
    \* train_qcnn
    n_train, n_epochs, step, weights, tpc,
    train_cost_epochs, train_acc_epochs, test_cost_epochs, test_acc_epochs,
    result,
    \* compute_accuracy
    batch,       \* the batch: [features, labels], two lists of one length
    acc,         \* the returned accuracy, a fraction [num, den]
    apc

netVars == <<layers, lastSize, wires, j, prog, rounds, pc, err>>
layerVars == <<lwires, lskip, lcall, lout, lpasses>>
trainVars == <<n_train, n_epochs, step, weights, tpc, train_cost_epochs,
               train_acc_epochs, test_cost_epochs, test_acc_epochs, result>>
accVars == <<batch, acc, apc>>
vars == <<netVars, layerVars, trainVars, accVars>>

----------------------------------------------------------------------------
(* Program constants and bounds *)

num_wires == 6

\* weights.shape[0] of the tensor init_weights builds: 15 convolution weights
\* and 3 pooling weights per column
KernelRows == 18

\* columns of the weight tensor handed to conv_net range over 0..MaxLayers
MaxLayers == 3

\* train_qcnn is called with n_epochs in 0..MaxEpochs and n_train in 1..MaxTrain
MaxEpochs == 5
MaxTrain == 2

\* compute_accuracy is called on batches of 1..MaxBatch samples; conv_net's
\* probabilities are the multiples of 1/ProbDen
MaxBatch == 3
ProbDen == 4

\* wire lists handed directly to a layer have at most MaxLen wires
MaxLen == 5

RECURSIVE Pow4(_)
Pow4(k) == IF k = 0 THEN 1 ELSE 4 * Pow4(k - 1)

\* the sizes of last_layer_weights tried: each 4^k - 1 and its neighbours
LastSizes == {Pow4(k) - 1 + d : k \in 1..num_wires, d \in {-1, 0, 1}}

----------------------------------------------------------------------------
(* Python sequence helpers (0-based, half-open slices) *)

Min(a, b) == IF a < b THEN a ELSE b

\* s[lo:hi]
Slice(s, lo, hi) == SubSeq(s, lo + 1, Min(hi, Len(s)))

\* s[lo:]
SliceFrom(s, lo) == SubSeq(s, lo + 1, Len(s))

\* s[i]
At(s, i) == s[i + 1]

\* faulty variant: s[1::2], the stride started at the second element
OddOnes(s) == [i \in 1..(Len(s) \div 2) |-> s[2 * i]]

\* faulty variant: a generic halving, the first ceil(n/2) elements
FirstHalf(s) == SubSeq(s, 1, (Len(s) + 1) \div 2)

RECURSIVE EveryOther(_)
\* s[::2]
EveryOther(s) ==
    IF Len(s) = 0 THEN <<>>
    ELSE IF Len(s) = 1 THEN s
    ELSE <<s[1]>> \o EveryOther(SubSeq(s, 3, Len(s)))

\* weights[:, j]
Column(c) == [i \in 1..KernelRows |-> (i - 1) + KernelRows * c]

\* list(range(n))
Range(n) == [i \in 1..n |-> i - 1]

----------------------------------------------------------------------------
(* Gate operations *)

Op(g, ws, ps, cs) ==
    [gate |-> g, wires |-> ws, params |-> ps, ctrl |-> cs, size |-> Len(ps)]

U3(ps, w) == Op("U3", <<w>>, ps, <<>>)
IsingXX(p, w1, w2) == Op("IsingXX", <<w1, w2>>, <<p>>, <<>>)
IsingYY(p, w1, w2) == Op("IsingYY", <<w1, w2>>, <<p>>, <<>>)
IsingZZ(p, w1, w2) == Op("IsingZZ", <<w1, w2>>, <<p>>, <<>>)
Measure(w) == Op("measure", <<w>>, <<>>, <<>>)
CondU3(ps, w, m) == Op("U3", <<w>>, ps, <<m>>)

\* the outcome of a function that queues gates: ok is FALSE when its assertion
\* failed, ops are the gates it queued before returning or raising
Ok(ops) == [ok |-> TRUE, ops |-> ops]
Raised(ops) == [ok |-> FALSE, ops |-> ops]

AmplitudeEmbedding(ws) ==
    [gate |-> "AmplitudeEmbedding", wires |-> ws, params |-> <<>>,
     ctrl |-> <<>>, size |-> 0]

\* qml.ArbitraryUnitary(weights, wires); the weight vector is kept by its size
ArbitraryUnitary(size, ws) ==
    [gate |-> "ArbitraryUnitary", wires |-> ws, params |-> <<>>,
     ctrl |-> <<>>, size |-> size]

Probs(w) ==
    [gate |-> "probs", wires |-> <<w>>, params |-> <<>>, ctrl |-> <<>>,
     size |-> 0]

TooSmall == "this circuit is too small!"
WrongLastSize == "The size of the last layer weights vector is incorrect!"

----------------------------------------------------------------------------
(* convolutional_layer *)

\* the body of the two loops for one position indx that passed the first test
PairGates(ws, kw, indx, skip_first_layer) ==
    LET w == At(ws, indx)
        w1 == At(ws, indx + 1)
    IN  (IF indx % 2 = 0 /\ skip_first_layer
         THEN <<U3(Slice(kw, 0, 3), w), U3(Slice(kw, 3, 6), w1)>>
         ELSE <<>>)
        \o <<IsingXX(At(kw, 6), w, w1),
             IsingYY(At(kw, 7), w, w1),
             IsingZZ(At(kw, 8), w, w1),
             U3(Slice(kw, 9, 12), w),
             U3(SliceFrom(kw, 12), w1)>>

RECURSIVE ConvSweepAll(_, _, _, _, _)
\* faulty variant: the position's parity is not tested, every pass sweeps every pair
ConvSweepAll(ws, kw, skip_first_layer, p, indx) ==
    IF indx >= Len(ws) THEN <<>>
    ELSE (IF indx < Len(ws) - 1
          THEN PairGates(ws, kw, indx, skip_first_layer)
          ELSE <<>>)
         \o ConvSweepAll(ws, kw, skip_first_layer, p, indx + 1)

RECURSIVE ConvSweep(_, _, _, _, _)
\* `for indx, w in enumerate(wires)` of pass p, from position indx on
ConvSweep(ws, kw, skip_first_layer, p, indx) ==
    IF indx >= Len(ws) THEN <<>>
    ELSE (IF indx % 2 = p /\ indx < Len(ws) - 1
          THEN PairGates(ws, kw, indx, skip_first_layer)
          ELSE <<>>)
         \o ConvSweep(ws, kw, skip_first_layer, p, indx + 1)

\* faulty variant: the assertion is made after the sweeps instead of before them
convolutional_layer_late(kw, ws, skip_first_layer) ==
    LET ops == ConvSweep(ws, kw, skip_first_layer, 0, 0)
               \o ConvSweep(ws, kw, skip_first_layer, 1, 0)
    IN  IF ~(Len(ws) >= 3) THEN Raised(ops) ELSE Ok(ops)

\* faulty variant: the assertion admits two wires
convolutional_layer_two(kw, ws, skip_first_layer) ==
    IF ~(Len(ws) >= 2) THEN Raised(<<>>)
    ELSE Ok(ConvSweep(ws, kw, skip_first_layer, 0, 0)
            \o ConvSweep(ws, kw, skip_first_layer, 1, 0))

convolutional_layer(kw, ws, skip_first_layer) ==
    IF ~(Len(ws) >= 3) THEN Raised(<<>>)
    ELSE Ok(ConvSweep(ws, kw, skip_first_layer, 0, 0)
            \o ConvSweep(ws, kw, skip_first_layer, 1, 0))

----------------------------------------------------------------------------
(* pooling_layer *)

RECURSIVE PoolSweepShort(_, _, _)
\* faulty variant: the bound of the convolution sweep, the last position is left out
PoolSweepShort(ws, pw, indx) ==
    IF indx >= Len(ws) THEN <<>>
    ELSE (IF indx % 2 = 1 /\ indx < Len(ws) - 1
          THEN <<Measure(At(ws, indx)),
                 CondU3(pw, At(ws, indx - 1), At(ws, indx))>>
          ELSE <<>>)
         \o PoolSweepShort(ws, pw, indx + 1)

RECURSIVE PoolSweep(_, _, _)
\* `for indx, w in enumerate(wires)` from position indx on
PoolSweep(ws, pw, indx) ==
    IF indx >= Len(ws) THEN <<>>
    ELSE (IF indx % 2 = 1 /\ indx < Len(ws)
          THEN <<Measure(At(ws, indx)),
                 CondU3(pw, At(ws, indx - 1), At(ws, indx))>>
          ELSE <<>>)
         \o PoolSweep(ws, pw, indx + 1)

pooling_layer(pw, ws) ==
    IF ~(Len(ws) >= 2) THEN Raised(<<>>)
    ELSE Ok(PoolSweep(ws, pw, 0))

----------------------------------------------------------------------------
(* conv_and_pooling, dense_layer *)

\* convolutional_layer is called with its default skip_first_layer=True
conv_and_pooling(kernel_weights, ws) ==
    LET c == convolutional_layer(Slice(kernel_weights, 0, 15), ws, TRUE)
    IN  IF ~c.ok THEN c
        ELSE LET q == pooling_layer(SliceFrom(kernel_weights, 15), ws)
             IN  [ok |-> q.ok, ops |-> c.ops \o q.ops]

dense_layer(size, ws) == Ok(<<ArbitraryUnitary(size, ws)>>)

\* faulty variant: a weight vector that is too short is let through
LastSizeAtMost(size, ws) == size <= Pow4(Len(ws)) - 1

\* the assertion of conv_net before the dense layer
LastSizeOk(size, ws) == size = Pow4(Len(ws)) - 1

----------------------------------------------------------------------------
(* conv_net *)

InitNet ==
    /\ layers \in 0..MaxLayers
    /\ lastSize \in LastSizes
    /\ wires = Range(num_wires)
    /\ j = 0
    /\ prog = <<>>
    /\ rounds = <<>>
    /\ pc = "embed"
    /\ err = "none"

Embed ==
    /\ pc = "embed"
    /\ prog' = Append(prog, AmplitudeEmbedding(wires))
    /\ pc' = "rounds"
    /\ UNCHANGED <<layers, lastSize, wires, j, rounds, err>>

\* one iteration of `for j in range(layers)`
ConvPoolRound ==
    /\ pc = "rounds"
    /\ j < layers
    /\ LET r == conv_and_pooling(Column(j), wires)
       IN  /\ prog' = prog \o r.ops
           /\ IF r.ok
              THEN /\ wires' = EveryOther(wires)
                   /\ j' = j + 1
                   /\ rounds' = Append(rounds,
                          [col |-> j, wires |-> wires, ops |-> r.ops])
                   /\ UNCHANGED <<pc, err>>
              ELSE /\ pc' = "raised"
                   /\ err' = TooSmall
                   /\ UNCHANGED <<wires, j, rounds>>
    /\ UNCHANGED <<layers, lastSize>>

\* the assertion on last_layer_weights.size and the call of dense_layer
DenseLayer ==
    /\ pc = "rounds"
    /\ j = layers
    /\ IF LastSizeOk(lastSize, wires)
       THEN /\ prog' = prog \o dense_layer(lastSize, wires).ops
            /\ pc' = "probs"
            /\ UNCHANGED err
       ELSE /\ pc' = "raised"
            /\ err' = WrongLastSize
            /\ UNCHANGED prog
    /\ UNCHANGED <<layers, lastSize, wires, j, rounds>>

\* return qml.probs(wires=(0))
ReturnProbs ==
    /\ pc = "probs"
    /\ prog' = Append(prog, Probs(0))
    /\ pc' = "done"
    /\ UNCHANGED <<layers, lastSize, wires, j, rounds, err>>

IdleNet ==
    /\ layers = 0
    /\ lastSize = 0
    /\ wires = <<>>
    /\ j = 0
    /\ prog = <<>>
    /\ rounds = <<>>
    /\ pc = "idle"
    /\ err = "none"

IdleLayer ==
    /\ lwires = <<>>
    /\ lskip = TRUE
    /\ lcall = "idle"
    /\ lout = Ok(<<>>)
    /\ lpasses = <<>>

IdleTrain ==
    /\ n_train = 0
    /\ n_epochs = 0
    /\ step = 0
    /\ weights = 0
    /\ tpc = "idle"
    /\ train_cost_epochs = <<>>
    /\ train_acc_epochs = <<>>
    /\ test_cost_epochs = <<>>
    /\ test_acc_epochs = <<>>
    /\ result = <<>>

IdleAcc ==
    /\ batch = <<>>
    /\ acc = <<>>
    /\ apc = "idle"

Init == InitNet /\ IdleLayer /\ IdleTrain /\ IdleAcc

Next ==
    \/ Embed /\ UNCHANGED <<layerVars, trainVars, accVars>>
    \/ ConvPoolRound /\ UNCHANGED <<layerVars, trainVars, accVars>>
    \/ DenseLayer /\ UNCHANGED <<layerVars, trainVars, accVars>>
    \/ ReturnProbs /\ UNCHANGED <<layerVars, trainVars, accVars>>

Spec == Init /\ [][Next]_vars

----------------------------------------------------------------------------
(* Properties of conv_net, checked under Spec *)

\* the elements of s at the even positions 0, 2, 4, ...
EveryOtherOf(s) == [i \in 1..((Len(s) + 1) \div 2) |-> s[2 * i - 1]]

RECURSIVE FlatOps(_)
\* the gates of the rounds rs, in order
FlatOps(rs) == IF rs = <<>> THEN <<>> ELSE Head(rs).ops \o FlatOps(Tail(rs))

Gates(ops, names) == {i \in 1..Len(ops) : ops[i].gate \in names}

ParamsOf(ops) == UNION {{ops[i].params[k] : k \in 1..Len(ops[i].params)} : i \in 1..Len(ops)}

WiresOf(ops) == UNION {{ops[i].wires[k] : k \in 1..Len(ops[i].wires)} : i \in 1..Len(ops)}

ColumnIds(c) == {Column(c)[i] : i \in 1..KernelRows}

Elems(s) == {s[i] : i \in 1..Len(s)}

\* C1 as stated: whenever conv_net ends in a precondition failure, the circuit
\* program is still empty when the error is raised.
C1_EmptyProgramAtFailure == pc = "raised" => prog = <<>>

\* C1 as amended: whenever conv_net ends in a precondition failure, no gate of
\* the failing stage has been emitted: a round whose wire list is too small has
\* emitted none of its gates, a wrong last-layer size is raised before the dense
\* unitary, and nothing is measured; the program holds exactly the embedding
\* and the gates of the rounds completed before.
C1_FailureBeforeFailingStage ==
    pc = "raised" =>
        /\ prog = <<AmplitudeEmbedding(Range(num_wires))>> \o FlatOps(rounds)
        /\ Gates(prog, {"ArbitraryUnitary", "probs"}) = {}
        /\ Len(rounds) = j
        /\ err \in {TooSmall, WrongLastSize}
        /\ err = TooSmall =>
               /\ j < layers
               /\ Len(wires) < 3
               /\ ParamsOf(prog) \cap ColumnIds(j) = {}
        /\ err = WrongLastSize =>
               /\ j = layers
               /\ lastSize # Pow4(Len(wires)) - 1

C1_Witness ==
    /\ pc = "raised"
    /\ err = TooSmall
    /\ Len(rounds) = 2
    /\ Len(prog) > 1

C3_RoundsAndStride ==
    /\ \A k \in 1..Len(rounds) :
           /\ rounds[k].col = k - 1
           /\ rounds[k].wires =
                  IF k = 1 THEN Range(num_wires)
                  ELSE EveryOtherOf(rounds[k - 1].wires)
           /\ rounds[k].ops # <<>>
           /\ ParamsOf(rounds[k].ops) = ColumnIds(k - 1)
           /\ WiresOf(rounds[k].ops) = Elems(rounds[k].wires)
    /\ Len(rounds) = j
    /\ wires = IF j = 0 THEN Range(num_wires)
               ELSE EveryOtherOf(rounds[j].wires)
    /\ layers = 2 =>
           /\ j >= 1 => rounds[1].wires = <<0, 1, 2, 3, 4, 5>>
           /\ j >= 2 => rounds[2].wires = <<0, 2, 4>>
           /\ j = 2 => /\ wires = <<0, 4>>
                       /\ Pow4(Len(wires)) - 1 = 15
           /\ err # TooSmall
           /\ lastSize = 15 =>
                  /\ pc # "raised"
                  /\ pc = "done" =>
                         /\ Len(prog) = 1 + Len(FlatOps(rounds)) + 2
                         /\ prog[Len(prog) - 1] = ArbitraryUnitary(15, <<0, 4>>)
                         /\ prog[Len(prog)] = Probs(0)

C3_Witness ==
    /\ layers = 2
    /\ lastSize = 15
    /\ pc = "done"
    /\ Len(rounds) = 2

\* C4: every round that ran had at least 3 active wires (so at least 2 for the
\* pooling); a round reached with fewer fails with the error and emits none of
\* its gates; on the 6-wire register all rounds pass only with at most 2
\* columns, and with 3 columns the third round, on wires [0,4], fails.
C4_WireCountEnforced ==
    /\ \A k \in 1..Len(rounds) : Len(rounds[k].wires) >= 3
    /\ (j < layers /\ Len(wires) < 3 /\ pc \notin {"embed", "rounds"}) =>
           /\ pc = "raised"
           /\ err = TooSmall
           /\ prog = <<AmplitudeEmbedding(Range(num_wires))>> \o FlatOps(rounds)
           /\ ParamsOf(prog) \cap ColumnIds(j) = {}
    /\ err = TooSmall => (j < layers /\ Len(wires) < 3)
    /\ (j = layers /\ pc # "embed") => layers <= 2
    /\ pc \in {"probs", "done"} => layers <= 2
    /\ (layers = 3 /\ pc \notin {"embed", "rounds"}) =>
           /\ pc = "raised"
           /\ err = TooSmall
           /\ j = 2
           /\ wires = <<0, 4>>

C4_Witness ==
    /\ layers = 3
    /\ pc = "raised"
    /\ err = TooSmall
    /\ j = 2
    /\ Len(rounds) = 2

----------------------------------------------------------------------------
(* Direct calls of the layers on arbitrary wire lists: SpecLayers *)

\* the wire lists: up to MaxLen distinct wires of the device, in any order
WireLists ==
    UNION {{s \in [1..n -> 0..(num_wires - 1)] :
               \A a, b \in 1..n : a # b => s[a] # s[b]} : n \in 0..MaxLen}

InitLayer ==
    /\ lwires \in WireLists
    /\ lskip \in BOOLEAN
    /\ lcall = "none"
    /\ lout = Ok(<<>>)
    /\ lpasses = <<>>

\* convolutional_layer(weights[:15, 0], lwires, lskip)
CallConvolutionalLayer ==
    /\ lcall = "none"
    /\ lcall' = "convolutional_layer"
    /\ lout' = convolutional_layer(Slice(Column(0), 0, 15), lwires, lskip)
    /\ lpasses' = IF lout'.ok
                  THEN [p \in 1..2 |->
                           ConvSweep(lwires, Slice(Column(0), 0, 15), lskip,
                                     p - 1, 0)]
                  ELSE <<>>
    /\ UNCHANGED <<lwires, lskip>>

\* pooling_layer(weights[15:, 0], lwires)
CallPoolingLayer ==
    /\ lcall = "none"
    /\ lcall' = "pooling_layer"
    /\ lout' = pooling_layer(SliceFrom(Column(0), 15), lwires)
    /\ UNCHANGED <<lwires, lskip, lpasses>>

\* conv_and_pooling(weights[:, 0], lwires)
CallConvAndPooling ==
    /\ lcall = "none"
    /\ lcall' = "conv_and_pooling"
    /\ lout' = conv_and_pooling(Column(0), lwires)
    /\ UNCHANGED <<lwires, lskip, lpasses>>

InitLayers == IdleNet /\ InitLayer /\ IdleTrain /\ IdleAcc

NextLayers ==
    \/ CallConvolutionalLayer /\ UNCHANGED <<netVars, trainVars, accVars>>
    \/ CallPoolingLayer /\ UNCHANGED <<netVars, trainVars, accVars>>
    \/ CallConvAndPooling /\ UNCHANGED <<netVars, trainVars, accVars>>

SpecLayers == InitLayers /\ [][NextLayers]_vars

----------------------------------------------------------------------------
(* Properties of the layers, checked under SpecLayers *)

\* positions 0 .. n-1 of a list of n wires
Pos(ws) == 0..(Len(ws) - 1)

\* the operations of ops that touch wire w (as a target)
Touching(ops, w) == {i \in 1..Len(ops) : w \in Elems(ops[i].wires)}

\* C5: for a list of n >= 2 wires pooling_layer measures exactly the wires at
\* the odd positions, each once, and for each emits one rotation on the wire
\* before it conditioned on that measurement; no even-positioned wire is
\* measured, so floor(n/2) wires are dropped and the even positions survive.
C5_PoolingMeasuresOddPositions ==
    (lcall = "pooling_layer" /\ Len(lwires) >= 2) =>
        LET ops == lout.ops
            n == Len(lwires)
            meas == Gates(ops, {"measure"})
            conds == {i \in 1..Len(ops) : ops[i].ctrl # <<>>}
            measured == {ops[i].wires[1] : i \in meas}
        IN  /\ lout.ok
            /\ \A i \in Pos(lwires) :
                   IF i % 2 = 1
                   THEN /\ Cardinality({m \in meas :
                               ops[m].wires = <<At(lwires, i)>>}) = 1
                        /\ Cardinality({c \in conds :
                               ops[c].ctrl = <<At(lwires, i)>>}) = 1
                        /\ \A c \in conds :
                               ops[c].ctrl = <<At(lwires, i)>> =>
                                   /\ ops[c].gate = "U3"
                                   /\ ops[c].wires = <<At(lwires, i - 1)>>
                                   /\ ops[c].params = SliceFrom(Column(0), 15)
                                   /\ ops[c - 1] = Measure(At(lwires, i))
                   ELSE /\ At(lwires, i) \notin measured
                        /\ \A c \in conds : ops[c].ctrl # <<At(lwires, i)>>
            /\ meas \cup conds = 1..Len(ops)
            /\ Cardinality(meas) = n \div 2
            /\ Cardinality(conds) = n \div 2
            /\ Cardinality(measured) = n \div 2
            /\ Elems(lwires) \ measured = Elems(EveryOther(lwires))
            /\ Len(EveryOther(lwires)) = n - n \div 2

C5_Witness ==
    /\ lcall = "pooling_layer"
    /\ Len(lwires) = 5
    /\ lout.ok
    /\ Len(lout.ops) = 4

\* the positions i whose pair (wires[i], wires[i+1]) has an interaction in ops
PairsIn(ops, ws) ==
    {i \in Pos(ws) : i < Len(ws) - 1 /\
        \E k \in 1..Len(ops) : /\ Len(ops[k].wires) = 2
                               /\ ops[k].wires = <<At(ws, i), At(ws, i + 1)>>}

\* every operation of ops acts on an adjacent pair of ws, or on one wire of a
\* pair that ops entangles
OnAdjacentPairs(ops, ws) ==
    \A k \in 1..Len(ops) :
        IF Len(ops[k].wires) = 2
        THEN \E i \in Pos(ws) : /\ i < Len(ws) - 1
                                /\ ops[k].wires = <<At(ws, i), At(ws, i + 1)>>
        ELSE \E i \in PairsIn(ops, ws) :
                 ops[k].wires[1] \in {At(ws, i), At(ws, i + 1)}

\* C6 as stated: for a list of at least 3 wires convolutional_layer emits gates
\* only on adjacent pairs, and within one sweep pass the emitted gate
\* operations touch each wire at most twice.
C6_AtMostTwoGatesPerPass ==
    (lcall = "convolutional_layer" /\ Len(lwires) >= 3) =>
        /\ lout.ok
        /\ OnAdjacentPairs(lout.ops, lwires)
        /\ \A p \in 1..2 : \A w \in Elems(lwires) :
               Cardinality(Touching(lpasses[p], w)) <= 2

\* C6 as amended: for a list of at least 3 wires convolutional_layer emits gates
\* only on adjacent pairs; within one sweep pass every wire belongs to at most
\* one pair and is touched by at most 5 gate operations (those of its pair);
\* over the two passes every wire belongs to at most two pairs.
C6_OnePairPerPass ==
    (lcall = "convolutional_layer" /\ Len(lwires) >= 3) =>
        /\ lout.ok
        /\ lout.ops = lpasses[1] \o lpasses[2]
        /\ OnAdjacentPairs(lout.ops, lwires)
        /\ \A p \in 1..2 :
               /\ OnAdjacentPairs(lpasses[p], lwires)
               /\ \A i \in PairsIn(lpasses[p], lwires) : i % 2 = p - 1
               /\ \A w \in Elems(lwires) :
                      /\ Cardinality({i \in PairsIn(lpasses[p], lwires) :
                             w \in {At(lwires, i), At(lwires, i + 1)}}) <= 1
                      /\ Cardinality(Touching(lpasses[p], w)) <= 5
        /\ \A w \in Elems(lwires) :
               Cardinality({i \in PairsIn(lout.ops, lwires) :
                   w \in {At(lwires, i), At(lwires, i + 1)}}) <= 2

C6_Witness ==
    /\ lcall = "convolutional_layer"
    /\ Len(lwires) = 4
    /\ lout.ok
    /\ lskip
    /\ Cardinality(Touching(lpasses[1], lwires[1])) = 5
    /\ PairsIn(lout.ops, lwires) = {0, 1, 2}

\* the leading rotations of the pair at position i: U3(weights[0:3]) on
\* wires[i] and U3(weights[3:6]) on wires[i+1]
HasLeading(ops, ws, i) ==
    /\ \E k \in 1..Len(ops) : ops[k] = U3(Slice(Column(0), 0, 3), At(ws, i))
    /\ \E k \in 1..Len(ops) :
           ops[k] = U3(Slice(Column(0), 3, 6), At(ws, i + 1))

IsLeading(op) ==
    /\ op.gate = "U3"
    /\ op.params \in {Slice(Column(0), 0, 3), Slice(Column(0), 3, 6)}

\* the interactions and trailing rotations of the pair at position i
HasBody(ops, ws, i) ==
    \E k \in 1..(Len(ops) - 4) :
        /\ ops[k] = IsingXX(At(Column(0), 6), At(ws, i), At(ws, i + 1))
        /\ ops[k + 1] = IsingYY(At(Column(0), 7), At(ws, i), At(ws, i + 1))
        /\ ops[k + 2] = IsingZZ(At(Column(0), 8), At(ws, i), At(ws, i + 1))
        /\ ops[k + 3] = U3(Slice(Column(0), 9, 12), At(ws, i))
        /\ ops[k + 4] = U3(Slice(Column(0), 12, 15), At(ws, i + 1))

\* C7: the leading rotations are emitted only for pairs of the even-position
\* sweep and only when the first layer is not skipped: none with
\* skip_first_layer true, for every even-position pair with it false; the
\* interactions and trailing rotations are emitted for every pair of both
\* sweeps.
C7_LeadingRotationsUnlessSkipped ==
    (lcall = "convolutional_layer" /\ lout.ok) =>
        /\ \A k \in 1..Len(lpasses[2]) : ~IsLeading(lpasses[2][k])
        /\ lskip => \A k \in 1..Len(lout.ops) : ~IsLeading(lout.ops[k])
        /\ ~lskip => \A i \in Pos(lwires) :
               (i % 2 = 0 /\ i < Len(lwires) - 1) =>
                   HasLeading(lpasses[1], lwires, i)
        /\ \A i \in Pos(lwires) :
               i < Len(lwires) - 1 => HasBody(lpasses[(i % 2) + 1], lwires, i)

----------------------------------------------------------------------------
(* train_qcnn: SpecTrain *)

(* The weight tensors (weights, weights_last) are kept as a version number:   *)
(* init_weights() returns version 0 and every optimizer update returns the    *)
(* next version.  An evaluation is kept symbolically, as the function called, *)
(* the weight version and the data set it was called with; `step` is the      *)
(* value of the loop variable when the entry was appended.                    *)

init_weights == 0

compute_cost(w, data) == [fn |-> "compute_cost", at |-> w, data |-> data]

compute_accuracy_of(w, data) == [fn |-> "compute_accuracy", at |-> w, data |-> data]

\* optimizer.step_and_cost(compute_cost, weights, weights_last, features, labels):
\* the updated arguments and the objective's value prior to the step
StepAndCost(w, data) == [args |-> w + 1, cost |-> compute_cost(w, data)]

Entry(v, st) == [value |-> v, step |-> st]

\* faulty variant: np.arange(n_epochs), the steps counted from 0
StepRangeFromZero(n) == [i \in 1..n |-> i - 1]

\* np.arange(1, n_epochs + 1)
StepRange(n) == [i \in 1..n |-> i]

\* [n_train] * n_epochs
Repeat(x, n) == [i \in 1..n |-> x]

InitTrain ==
    /\ n_train \in 1..MaxTrain
    /\ n_epochs \in 0..MaxEpochs
    /\ step = 0
    /\ weights = 0
    /\ tpc = "start"
    /\ train_cost_epochs = <<>>
    /\ train_acc_epochs = <<>>
    /\ test_cost_epochs = <<>>
    /\ test_acc_epochs = <<>>
    /\ result = <<>>

\* load the data, init weights and optimizer, empty containers
Setup ==
    /\ tpc = "start"
    /\ weights' = init_weights
    /\ train_cost_epochs' = <<>>
    /\ train_acc_epochs' = <<>>
    /\ test_cost_epochs' = <<>>
    /\ test_acc_epochs' = <<>>
    /\ step' = 0
    /\ tpc' = "loop"
    /\ UNCHANGED <<n_train, n_epochs, result>>

\* faulty variant: the updated weights are dropped, only the cost is kept
OptimizerStepDropsUpdate ==
    /\ tpc = "loop"
    /\ step < n_epochs
    /\ LET r == StepAndCost(weights, "train")
       IN  train_cost_epochs' = Append(train_cost_epochs, Entry(r.cost, step))
    /\ tpc' = "train_acc"
    /\ UNCHANGED <<n_train, n_epochs, step, weights, train_acc_epochs,
                   test_cost_epochs, test_acc_epochs, result>>

\* the next iteration of `for step in pbar`: the optimizer step
OptimizerStep ==
    /\ tpc = "loop"
    /\ step < n_epochs
    /\ LET r == StepAndCost(weights, "train")
       IN  /\ weights' = r.args
           /\ train_cost_epochs' = Append(train_cost_epochs, Entry(r.cost, step))
    /\ tpc' = "train_acc"
    /\ UNCHANGED <<n_train, n_epochs, step, train_acc_epochs,
                   test_cost_epochs, test_acc_epochs, result>>

\* compute accuracy on training data
TrainAcc ==
    /\ tpc = "train_acc"
    /\ train_acc_epochs' =
           Append(train_acc_epochs, Entry(compute_accuracy_of(weights, "train"), step))
    /\ tpc' = "test_cost"
    /\ UNCHANGED <<n_train, n_epochs, step, weights, train_cost_epochs,
                   test_cost_epochs, test_acc_epochs, result>>

\* compute cost on testing data
TestCost ==
    /\ tpc = "test_cost"
    /\ test_cost_epochs' =
           Append(test_cost_epochs, Entry(compute_cost(weights, "test"), step))
    /\ tpc' = "test_acc"
    /\ UNCHANGED <<n_train, n_epochs, step, weights, train_cost_epochs,
                   train_acc_epochs, test_acc_epochs, result>>

\* compute accuracy on testing data; the iteration ends
TestAcc ==
    /\ tpc = "test_acc"
    /\ test_acc_epochs' =
           Append(test_acc_epochs, Entry(compute_accuracy_of(weights, "test"), step))
    /\ step' = step + 1
    /\ tpc' = "loop"
    /\ UNCHANGED <<n_train, n_epochs, weights, train_cost_epochs,
                   train_acc_epochs, test_cost_epochs, result>>

\* the loop is exhausted: return dict(...)
Return ==
    /\ tpc = "loop"
    /\ step = n_epochs
    /\ result' = [n_train |-> Repeat(n_train, n_epochs),
                  step |-> StepRange(n_epochs),
                  train_cost |-> train_cost_epochs,
                  train_acc |-> train_acc_epochs,
                  test_cost |-> test_cost_epochs,
                  test_acc |-> test_acc_epochs]
    /\ tpc' = "done"
    /\ UNCHANGED <<n_train, n_epochs, step, weights, train_cost_epochs,
                   train_acc_epochs, test_cost_epochs, test_acc_epochs>>

InitTraining == IdleNet /\ IdleLayer /\ InitTrain /\ IdleAcc

NextTrain ==
    \/ Setup /\ UNCHANGED <<netVars, layerVars, accVars>>
    \/ OptimizerStep /\ UNCHANGED <<netVars, layerVars, accVars>>
    \/ TrainAcc /\ UNCHANGED <<netVars, layerVars, accVars>>
    \/ TestCost /\ UNCHANGED <<netVars, layerVars, accVars>>
    \/ TestAcc /\ UNCHANGED <<netVars, layerVars, accVars>>
    \/ Return /\ UNCHANGED <<netVars, layerVars, accVars>>

\* train_qcnn is one synchronous thread of control: a statement that can run, runs
SpecTrain == InitTraining /\ [][NextTrain]_vars /\ WF_vars(NextTrain)

----------------------------------------------------------------------------
(* Properties of train_qcnn, checked under SpecTrain *)

MetricLists == <<train_cost_epochs, train_acc_epochs, test_cost_epochs, test_acc_epochs>>

\* what holds of the records when train_qcnn has returned
C8_AtReturn ==
    tpc = "done" =>
        /\ weights = n_epochs
        /\ step = n_epochs
        /\ \A f \in {"n_train", "step", "train_cost", "train_acc",
                     "test_cost", "test_acc"} : Len(result[f]) = n_epochs
        /\ \A k \in 1..n_epochs :
               /\ result.step[k] = k
               /\ result.n_train[k] = n_train
               /\ result.train_cost[k].step = k - 1
               /\ result.train_acc[k].step = k - 1
               /\ result.test_cost[k].step = k - 1
               /\ result.test_acc[k].step = k - 1
        /\ n_epochs = 1 => result.step = <<1>>

\* while it runs: no more updates and records than epochs started
C8_WhileRunning ==
    /\ weights <= n_epochs
    /\ step <= n_epochs
    /\ \A i \in 1..4 : Len(MetricLists[i]) <= n_epochs

\* C8: train_qcnn terminates, after exactly n_epochs optimizer updates, and
\* returns n_epochs records: the six lists have length n_epochs, step is
\* 1..n_epochs, and the k-th entry of every metric list was appended in the
\* k-th epoch; one epoch yields one record with step = 1.
C8_FixedEpochCount == [](C8_AtReturn /\ C8_WhileRunning) /\ <>(tpc = "done")

C8_Witness ==
    /\ tpc = "done"
    /\ n_epochs = 1
    /\ weights = 1
    /\ result.step = <<1>>
    /\ Len(result.train_cost) = 1

\* C9: the weights change only in the optimizer step, once per epoch; the
\* k-th train_cost is the cost at the weights held before the k-th update (the
\* initial ones for k = 1), the k-th train_acc, test_cost and test_acc are
\* evaluated at the weights that update produced.
C9_WeightVersions ==
    /\ weights = IF tpc \in {"train_acc", "test_cost", "test_acc"}
                 THEN step + 1 ELSE step
    /\ \A k \in 1..Len(train_cost_epochs) :
           train_cost_epochs[k].value = compute_cost(k - 1, "train")
    /\ Len(train_cost_epochs) >= 1 =>
           train_cost_epochs[1].value.at = init_weights
    /\ \A k \in 1..Len(train_acc_epochs) :
           train_acc_epochs[k].value = compute_accuracy_of(k, "train")
    /\ \A k \in 1..Len(test_cost_epochs) :
           test_cost_epochs[k].value = compute_cost(k, "test")
    /\ \A k \in 1..Len(test_acc_epochs) :
           test_acc_epochs[k].value = compute_accuracy_of(k, "test")
    /\ Len(train_cost_epochs) =
           IF tpc \in {"train_acc", "test_cost", "test_acc"}
           THEN step + 1 ELSE step

C9_Witness ==
    /\ tpc = "done"
    /\ n_epochs >= 2
    /\ result.train_cost[1].value.at = 0
    /\ result.train_acc[1].value.at = 1
    /\ result.train_cost[2].value.at = 1
    /\ weights = n_epochs

----------------------------------------------------------------------------
(* compute_out, compute_accuracy: SpecAcc *)

(* A feature vector is kept as what conv_net makes of it under the weights of *)
(* the call: the number x in 0..ProbDen with conv_net(...) = (x/ProbDen,       *)
(* 1 - x/ProbDen), the probabilities of the outcomes 0 and 1 of wire 0.        *)
(* Probabilities are numerators over ProbDen; a fraction is [num, den].        *)

\* conv_net(weights, weights_last, feature): qml.probs(wires=(0))
ConvNetProbs(x) == <<x, ProbDen - x>>

\* jax.vmap of conv_net(...)[label] over the batch, in the batch's order
compute_out(features, labels) ==
    [i \in 1..Len(features) |-> ConvNetProbs(features[i])[labels[i] + 1]]

\* faulty variant: the threshold is met by a probability of exactly 0.5
compute_accuracy_geq(features, labels) ==
    LET out == compute_out(features, labels)
    IN  [num |-> Cardinality({i \in 1..Len(out) : 2 * out[i] >= ProbDen}),
         den |-> Len(out)]

\* jnp.sum(out > 0.5) / len(out)
compute_accuracy(features, labels) ==
    LET out == compute_out(features, labels)
    IN  [num |-> Cardinality({i \in 1..Len(out) : 2 * out[i] > ProbDen}),
         den |-> Len(out)]

InitAcc ==
    /\ \E n \in 1..MaxBatch :
           batch \in [features : [1..n -> 0..ProbDen], labels : [1..n -> {0, 1}]]
    /\ acc = <<>>
    /\ apc = "call"

ComputeAccuracy ==
    /\ apc = "call"
    /\ acc' = compute_accuracy(batch.features, batch.labels)
    /\ apc' = "done"
    /\ UNCHANGED batch

InitAccuracy == IdleNet /\ IdleLayer /\ IdleTrain /\ InitAcc

NextAcc == ComputeAccuracy /\ UNCHANGED <<netVars, layerVars, trainVars>>

SpecAcc == InitAccuracy /\ [][NextAcc]_vars

----------------------------------------------------------------------------
(* Properties of compute_accuracy, checked under SpecAcc *)

\* the numerator of the probability of sample i's own label
Selected(i) ==
    IF batch.labels[i] = 0 THEN batch.features[i]
    ELSE ProbDen - batch.features[i]

Perms(n) == {f \in [1..n -> 1..n] : \A a, b \in 1..n : a # b => f[a] # f[b]}

Permuted(s, f) == [i \in 1..Len(s) |-> s[f[i]]]

\* C10: for a non-empty batch compute_accuracy returns the number of samples
\* whose selected probability is strictly above 0.5 over the batch size: it is
\* in [0,1], it is 1 exactly when every selected probability is above 0.5 (a
\* probability of exactly 0.5 is a miss), and permuting features and labels
\* together does not change it.
C10_AccuracyIsFractionAboveHalf ==
    apc = "done" =>
        LET n == Len(batch.features)
            hits == {i \in 1..n : 2 * Selected(i) > ProbDen}
        IN  /\ acc.den = n
            /\ acc.num = Cardinality(hits)
            /\ 0 <= acc.num /\ acc.num <= acc.den
            /\ acc.num = acc.den <=> \A i \in 1..n : 2 * Selected(i) > ProbDen
            /\ (\E i \in 1..n : 2 * Selected(i) = ProbDen) => acc.num < acc.den
            /\ \A f \in Perms(n) :
                   compute_accuracy(Permuted(batch.features, f),
                                    Permuted(batch.labels, f)) = acc

C10_Witness ==
    /\ apc = "done"
    /\ Len(batch.features) = 3
    /\ batch.labels = <<0, 1, 1>>
    /\ 2 * Selected(1) = ProbDen
    /\ 2 * Selected(2) > ProbDen
    /\ 2 * Selected(3) < ProbDen
    /\ acc = [num |-> 1, den |-> 3]

----------------------------------------------------------------------------
(* The stride of conv_net against the wires pooling measures, under Spec *)

\* the wires measured by the operations ops[1..n]
MeasuredUpTo(ops, n) == {ops[i].wires[1] : i \in Gates(SubSeq(ops, 1, n), {"measure"})}

\* C11: once a pooling layer has measured a wire, the wire is never in the
\* active wire list again and no later operation acts on it; wire 0 is never
\* measured and is in the active list at every round and at the dense layer,
\* so the final readout is of an unmeasured wire that the dense unitary covers.
C11_MeasuredWiresRetired ==
    LET measured == MeasuredUpTo(prog, Len(prog))
    IN  /\ measured \cap Elems(wires) = {}
        /\ \A i \in Gates(prog, {"measure"}) :
               \A k \in (i + 1)..Len(prog) :
                   prog[i].wires[1] \notin Elems(prog[k].wires)
        /\ \A k \in 1..Len(rounds) :
               /\ 0 \in Elems(rounds[k].wires)
               /\ \A m \in (k + 1)..Len(rounds) :
                      MeasuredUpTo(rounds[k].ops, Len(rounds[k].ops))
                          \cap Elems(rounds[m].wires) = {}
        /\ 0 \notin measured
        /\ 0 \in Elems(wires)
        /\ \A i \in Gates(prog, {"ArbitraryUnitary"}) :
               /\ 0 \in Elems(prog[i].wires)
               /\ Elems(prog[i].wires) \cap MeasuredUpTo(prog, i) = {}
        /\ pc = "done" =>
               /\ prog[Len(prog)] = Probs(0)
               /\ prog[Len(prog) - 1].gate = "ArbitraryUnitary"
               /\ 0 \in Elems(prog[Len(prog) - 1].wires)

C11_Witness ==
    /\ pc = "done"
    /\ layers = 2
    /\ MeasuredUpTo(prog, Len(prog)) = {1, 2, 3, 5}
    /\ wires = <<0, 4>>
    /\ prog[Len(prog)] = Probs(0)

====
